---- MODULE Spec2Model ----
(***************************************************************************)
(* State-machine model of the XIVPF monitor: the poll loop                 *)
(* (XIVPFMonitor.continuous_search), the notification de-duplication       *)
(* (search_listings), the target registry (add/remove/check_monitor_       *)
(* targets), the order-based expiration detector (check_expired_by_order)  *)
(* and the operator-command listener (main.py input_listener).             *)
(*                                                                         *)
(* Time is counted in abstract ticks.  The remote API is the environment:  *)
(* every fetch draws its response (or its failure) from a bounded set.     *)
(***************************************************************************)
EXTENDS Integers, Sequences, FiniteSets, TLC

(***************************************************************************)
(* Bounds of the model.                                                    *)
(***************************************************************************)
MaxId == 2
MaxTimeLeft == 2
StartTime == 1
MaxNow == 2
MaxPages == 2
MaxPerPage == 1
\* constructor parameters of XIVPFMonitor, in ticks
CheckInterval == 1
ExpireThreshold == 1
MaxDuty == 2
MaxMerged == 3
MaxSlots == 2
MaxSlotCount == 1
MaxKeywordLen == 3
MaxDescriptionLen == 2

\* Listing.duty_type is Optional[str]: None is 0, a string is a positive rank
NoneType == 0
SecondsPerMinute == 60

Ids == 1..MaxId

\* models.Listing, reduced to the fields the monitor reads
Listings(ids, lefts, times, duties) ==
  [id : ids, time_left : lefts, updated_at : times, duty_type : duties]

\* list entries the source may serve: every id with the shortest remaining
\* time and the lowest duty_type, the highest id with the longest remaining
\* time and every duty_type (the sort puts a higher duty_type in front
\* whatever the remaining time), and one entry without a duty_type
ListingPool ==
  Listings(Ids, {1}, {0}, {1})
    \cup Listings({MaxId}, {MaxTimeLeft}, {0}, 1..MaxDuty)
    \cup Listings({1}, {1}, {0}, {NoneType})

\* the entries of ListingPool with the shortest remaining time
SmallPool == { l \in ListingPool : l.time_left = 1 }

\* a (condition, name) pair handed to continuous_search: advanced is TRUE when
\* at least one detail-level field of the FilterCondition is set; pool are
\* the list entries the source may serve for the condition, on up to pages pages
Basic(pages, pool) ==
  [name |-> "basic", advanced |-> FALSE, pages |-> pages, pool |-> pool]
Advanced(pages, pool) ==
  [name |-> "adv", advanced |-> TRUE, pages |-> pages, pool |-> pool]

\* continuous_search(enable_expire_check=True) as called by main.py
EnableExpireCheck == TRUE

VARIABLES
  notified_listings,   \* XIVPFMonitor.notified_listings
  monitor_targets,     \* XIVPFMonitor.monitor_targets: id -> MonitorTarget
  last_listings,       \* XIVPFMonitor.last_listings
  last_displayed_ids,  \* XIVPFMonitor.last_displayed_ids
  running,             \* XIVPFMonitor.running
  filter_conditions,   \* the enabled filters of the configuration
  pc,                  \* position of the continuous_search task
  ci,                  \* index of the condition being searched
  all_listings,        \* local all_listings of the iteration
  todo,                \* targets of check_monitor_targets not yet visited
  listener,            \* position of the input_listener task
  now,                 \* datetime.now()
  events,              \* notifier calls made by the latest step
  hist,                \* history of the current iteration (observation only)
  probe                \* the latest direct call of a function, with its result

vars ==
  << notified_listings, monitor_targets, last_listings, last_displayed_ids,
     running, filter_conditions, pc, ci, all_listings, todo, listener, now, events,
     hist, probe >>

(***************************************************************************)
(* Helpers.                                                                *)
(***************************************************************************)
SeqsUpTo(S, n) == UNION { [1..k -> S] : k \in 0..n }

IdsOf(s) == { s[i].id : i \in 1..Len(s) }

RECURSIVE Concat(_)
Concat(ss) == IF ss = <<>> THEN <<>> ELSE Head(ss) \o Concat(Tail(ss))

RECURSIVE SelectIdx(_, _, _)
\* the subsequence of s at the indices i with keep[i]
SelectIdx(s, keep, i) ==
  IF i > Len(s) THEN <<>>
  ELSE (IF keep[i] THEN <<s[i]>> ELSE <<>>) \o SelectIdx(s, keep, i + 1)

Min(a, b) == IF a < b THEN a ELSE b

(***************************************************************************)
(* api_client.py                                                           *)
(***************************************************************************)
\* data of page p as the source serves it (an empty page past the end)
PageData(pages, p) == IF p \in 1..Len(pages) THEN pages[p] ELSE <<>>

\* the argument max_pages: None, or an int
NoCap == [given |-> FALSE, n |-> 0]
Cap(n) == [given |-> TRUE, n |-> n]

\* "if max_pages and page >= max_pages": None and 0 are both falsy
MaxPagesHit(max_pages, page) ==
  max_pages.given /\ max_pages.n # 0 /\ page >= max_pages.n

RECURSIVE FetchFrom(_, _, _, _, _)
\* the while-loop of get_all_listings from request `page` on; the request for
\* page failAt raises aiohttp.ClientError (failAt = 0: no request fails)
FetchFrom(pages, failAt, max_pages, page, acc) ==
  IF page = failAt THEN [ok |-> FALSE, data |-> <<>>, requests |-> page]
  ELSE LET got == acc \o PageData(pages, page)
       IN IF page >= Len(pages) \/ MaxPagesHit(max_pages, page)
          THEN [ok |-> TRUE, data |-> got, requests |-> page]
          ELSE FetchFrom(pages, failAt, max_pages, page + 1, got)

GetAllListings(pages, failAt, max_pages) ==
  FetchFrom(pages, failAt, max_pages, 1, <<>>)

\* outcome of the detail request made by check_advanced_filters for one
\* listing: the detail satisfies the detail-level fields ("pass"), fails one
\* of them ("reject"), answers 404 ("gone") or the transport fails ("error")
Verdicts == {"pass", "reject", "gone", "error"}

\* lines 126-128 without the except clause
WhenGonePropagates == "raise"

\* lines 126-128: except ValueError: return False
WhenGone == "false"

CheckAdvancedFilters(cond, verdict) ==
  IF ~cond.advanced THEN "true"
  ELSE CASE verdict = "gone" -> WhenGone
         [] verdict = "error" -> "raise"
         [] verdict = "reject" -> "false"
         [] OTHER -> "true"

(***************************************************************************)
(* Strings are sequences of one-character strings.                         *)
(***************************************************************************)
Whitespace == {" "}

\* the letters with two cases: <<lower, upper>>
LetterCases ==
  { <<"a", "A">>, <<"d", "D">>, <<"l", "L">>, <<"p", "P">>, <<"r", "R">>,
    <<"w", "W">> }

UpperChar(c) ==
  IF \E l \in LetterCases : l[1] = c
  THEN (CHOOSE l \in LetterCases : l[1] = c)[2] ELSE c

LowerChar(c) ==
  IF \E l \in LetterCases : l[2] = c
  THEN (CHOOSE l \in LetterCases : l[2] = c)[1] ELSE c

\* str.upper(), str.lower()
Upper(str) == [i \in 1..Len(str) |-> UpperChar(str[i])]
Lower(str) == [i \in 1..Len(str) |-> LowerChar(str[i])]

RECURSIVE Strip(_)
\* str.strip()
Strip(str) ==
  IF str = <<>> THEN str
  ELSE IF Head(str) \in Whitespace THEN Strip(Tail(str))
  ELSE IF str[Len(str)] \in Whitespace
       THEN Strip(SubSeq(str, 1, Len(str) - 1))
  ELSE str

RECURSIVE SplitFrom(_, _, _)
\* the tokens of str behind the tokens acc and the open token cur
SplitFrom(str, cur, acc) ==
  LET closed == IF cur = <<>> THEN acc ELSE Append(acc, cur)
  IN  IF str = <<>> THEN closed
      ELSE IF Head(str) \in Whitespace THEN SplitFrom(Tail(str), <<>>, closed)
      ELSE SplitFrom(Tail(str), Append(cur, Head(str)), acc)

\* str.split(): the maximal runs of non-whitespace characters
Split(str) == SplitFrom(str, <<>>, <<>>)

\* sub in str
Contains(str, sub) ==
  \E i \in 0..(Len(str) - Len(sub)) : SubSeq(str, i + 1, i + Len(sub)) = sub

\* the entries of s
Range(s) == { s[i] : i \in 1..Len(s) }

(***************************************************************************)
(* job_mappings.py                                                         *)
(***************************************************************************)
PLD == <<"P", "L", "D">>
WAR == <<"W", "A", "R">>

\* JOB_CODE_TO_ID, two of its entries
JOB_CODE_TO_ID == [code \in {PLD, WAR} |-> IF code = PLD THEN 19 ELSE 21]

\* get_job_codes_from_string
GetJobCodesFromString(job_string) ==
  IF job_string = <<>> THEN <<>>
  ELSE LET codes == SelectSeq(Split(job_string), LAMBDA c : Strip(c) # <<>>)
       IN  [i \in 1..Len(codes) |-> Upper(Strip(codes[i]))]

\* get_job_ids_from_codes: the ids of the codes the table knows
GetJobIdsFromCodes(job_codes) ==
  { JOB_CODE_TO_ID[code] :
      code \in { c \in Range([i \in 1..Len(job_codes)
                               |-> Upper(Strip(job_codes[i]))]) :
                   c \in DOMAIN JOB_CODE_TO_ID } }

(***************************************************************************)
(* api_client.py: check_advanced_filters on the fields                     *)
(***************************************************************************)
\* an Optional field: None, with a value of the field's type in v, or v
None(d) == [given |-> FALSE, v |-> d]
Some(x) == [given |-> TRUE, v |-> x]

\* the test of lines 114-120 never short-circuits
DetailFieldsTruthAlways(c) == {TRUE}

\* lines 114-120: the values of any([...]), each by Python's truth
DetailFieldsTruth(c) ==
  { c.exclude_jobs.given /\ c.exclude_jobs.v # {},
    c.min_slots_available.given /\ c.min_slots_available.v # 0,
    c.max_slots_filled.given /\ c.max_slots_filled.v # 0,
    c.beginners_welcome.given,
    c.content_keywords.given /\ c.content_keywords.v # <<>> }

\* line 133 without the test of slot.filled
SlotCountsUnfilled(slot) == slot.job # <<>>

\* line 133: if slot.filled and slot.job
SlotCounts(slot) == slot.filled /\ slot.job # <<>>

\* lines 131-141: a counted slot holds a job of exclude_jobs
HasExcludedJob(c, detail) ==
  /\ c.exclude_jobs.given /\ c.exclude_jobs.v # {}
  /\ detail.slots.given /\ detail.slots.v # <<>>
  /\ \E i \in 1..Len(detail.slots.v) :
       /\ SlotCounts(detail.slots.v[i])
       /\ GetJobIdsFromCodes(GetJobCodesFromString(detail.slots.v[i].job))
            \cap c.exclude_jobs.v # {}

\* line 160 without .lower()
KeywordsAsTyped(content_keywords) ==
  LET tokens == SelectSeq(Split(content_keywords), LAMBDA kw : Strip(kw) # <<>>)
  IN  [i \in 1..Len(tokens) |-> Strip(tokens[i])]

\* line 160
Keywords(content_keywords) ==
  LET tokens == SelectSeq(Split(content_keywords), LAMBDA kw : Strip(kw) # <<>>)
  IN  [i \in 1..Len(tokens) |-> Lower(Strip(tokens[i]))]

\* lines 159-168: the keywords are given and none is in the description
LacksKeyword(c, detail) ==
  /\ c.content_keywords.given /\ c.content_keywords.v # <<>>
  /\ Keywords(c.content_keywords.v) # <<>>
  /\ ~ \E i \in 1..Len(Keywords(c.content_keywords.v)) :
         Contains(Lower(detail.description),
                  Keywords(c.content_keywords.v)[i])

\* check_advanced_filters(listing, c) when get_listing_detail answers with
\* response: kind "ok" with the detail, "gone" (ValueError) or "error" (any
\* other exception); fetches counts the calls of get_listing_detail
CheckAdvancedFiltersOn(c, response) ==
  IF TRUE \notin DetailFieldsTruth(c) THEN [result |-> "true", fetches |-> 0]
  ELSE IF response.kind = "gone" THEN [result |-> WhenGone, fetches |-> 1]
  ELSE IF response.kind = "error" THEN [result |-> "raise", fetches |-> 1]
  ELSE LET detail == response.detail
       IN  [fetches |-> 1,
            result |->
              IF HasExcludedJob(c, detail) THEN "false"
              ELSE IF /\ c.min_slots_available.given
                      /\ detail.slots_available < c.min_slots_available.v
                   THEN "false"
              ELSE IF /\ c.max_slots_filled.given
                      /\ detail.slots_filled > c.max_slots_filled.v
                   THEN "false"
              ELSE IF /\ c.beginners_welcome.given
                      /\ detail.beginners_welcome # c.beginners_welcome
                   THEN "false"
              ELSE IF LacksKeyword(c, detail) THEN "false"
              ELSE "true"]

(***************************************************************************)
(* monitor.py: search_listings                                             *)
(***************************************************************************)
\* lines 59-62: the listings whose id is not in the notified set
NewListings(filtered, notified) ==
  SelectIdx(filtered, [i \in 1..Len(filtered) |-> filtered[i].id \notin notified], 1)

\* RecordNotified without lines 74-75
RecordNotifiedNothing(notified, new) == notified

\* lines 73-75 with an assignment of the new ids in place of add
RecordNotifiedOnlyNew(notified, new) == IdsOf(new)

\* lines 73-75: the notified set after notify_found was called for new
RecordNotified(notified, new) == notified \cup IdsOf(new)

\* what the call would return if no request failed
FilteredListings(cond, data, verdicts) ==
  SelectIdx(data,
            [i \in 1..Len(data) |-> CheckAdvancedFilters(cond, verdicts[i]) = "true"], 1)

\* line 71 with enable_system_notification=True
AllowSystemNotificationAlways(targets) == TRUE

\* lines 67 and 71: enable_system_notification = not has_monitor_targets
AllowSystemNotification(targets) == DOMAIN targets = {}

\* an except clause that returns the listings that had passed before the raise
ExceptClauseKeeps(partial, notified) ==
  [ret |-> partial, raised |-> TRUE, found |-> <<>>, sys |-> FALSE,
   notified |-> notified]

\* lines 79-81: except Exception: logger.error(...); return []
ExceptClause(partial, notified) ==
  [ret |-> <<>>, raised |-> TRUE, found |-> <<>>, sys |-> FALSE,
   notified |-> notified]

\* search_listings(cond, name, notify): ret is the returned list, found the
\* list handed to notify_found (empty: no call), notified the set afterwards
SearchListings(cond, notified, targets, pages, failAt, verdicts, notify) ==
  LET got == GetAllListings(pages, failAt, NoCap)
      raises == \/ ~got.ok
                \/ \E i \in 1..Len(got.data) :
                     CheckAdvancedFilters(cond, verdicts[i]) = "raise"
      filtered == FilteredListings(cond, got.data, verdicts)
      new == NewListings(filtered, notified)
      calls == notify /\ new # <<>>
      fetched == IF got.ok THEN got.data
                 ELSE Concat(SubSeq(pages, 1, failAt - 1))
  IN IF raises
     THEN ExceptClause(FilteredListings(cond, fetched, verdicts), notified)
     ELSE [ret |-> filtered, raised |-> FALSE,
           found |-> IF calls THEN new ELSE <<>>,
           sys |-> AllowSystemNotification(targets),
           notified |-> IF calls THEN RecordNotified(notified, new) ELSE notified]

\* the notify_found call of the search, as the notifier sees it
FoundEvents(r, name) ==
  IF r.found = <<>> THEN <<>>
  ELSE <<[type |-> "found", ids |-> IdsOf(r.found), name |-> name, sys |-> r.sys]>>

(***************************************************************************)
(* monitor.py: the sort of continuous_search (lines 233-241)               *)
(***************************************************************************)
\* updated_at.replace(second=0, microsecond=0)
TruncMinute(t) == t - (t % SecondsPerMinute)

\* the key with time_left in place of -time_left
KeyLessLongestFirst(a, b) ==
  \/ TruncMinute(a.updated_at) < TruncMinute(b.updated_at)
  \/ /\ TruncMinute(a.updated_at) = TruncMinute(b.updated_at)
     /\ \/ a.duty_type < b.duty_type
        \/ a.duty_type = b.duty_type /\ a.time_left < b.time_left

\* key(a) < key(b) for the key (minute, duty_type, -time_left); only called
\* on pairs Python can compare
KeyLess(a, b) ==
  \/ TruncMinute(a.updated_at) < TruncMinute(b.updated_at)
  \/ /\ TruncMinute(a.updated_at) = TruncMinute(b.updated_at)
     /\ \/ a.duty_type < b.duty_type
        \/ a.duty_type = b.duty_type /\ -a.time_left < -b.time_left

\* Comparing two key tuples raises TypeError when the minutes are equal and
\* exactly one duty_type is None.  A comparison sort that completes has
\* compared every two neighbours of its result, and the entries of one minute
\* are neighbours there, so the sort raises exactly when such a pair exists.
SortRaises(s) ==
  \E i, j \in 1..Len(s) :
    /\ TruncMinute(s[i].updated_at) = TruncMinute(s[j].updated_at)
    /\ (s[i].duty_type = NoneType) # (s[j].duty_type = NoneType)

RECURSIVE InsertDesc(_, _)
\* x, which followed every entry of s in the input, behind the entries whose
\* key is not less than its own (list.sort keeps equal keys in input order,
\* with reverse=True too)
InsertDesc(x, s) ==
  IF s = <<>> THEN <<x>>
  ELSE IF KeyLess(Head(s), x) THEN <<x>> \o s
       ELSE <<Head(s)>> \o InsertDesc(x, Tail(s))

RECURSIVE SortListings(_)
SortListings(s) ==
  IF s = <<>> THEN <<>>
  ELSE InsertDesc(s[Len(s)], SortListings(SubSeq(s, 1, Len(s) - 1)))

(***************************************************************************)
(* monitor.py: the target registry                                         *)
(***************************************************************************)
\* self.monitor_targets = {}
NoTargets == [x \in {} |-> [last_update |-> 0, time_without_update |-> 0]]

\* the deletion with a reset of the staleness of the entries that stay
WithoutResetting(targets, id) ==
  [x \in DOMAIN targets \ {id} |->
     [last_update |-> targets[x].last_update, time_without_update |-> 0]]

\* del self.monitor_targets[listing_id]
Without(targets, id) == [x \in DOMAIN targets \ {id} |-> targets[x]]

With(targets, id, t) ==
  [x \in DOMAIN targets \cup {id} |-> IF x = id THEN t ELSE targets[x]]

Status(msg) == [type |-> "status", msg |-> msg]
StatusFor(msg, id) == [type |-> "status", msg |-> msg, id |-> id]
Expired(id, reason) == [type |-> "expired", id |-> id, reason |-> reason]
Updated(id) == [type |-> "updated", id |-> id]

\* remove_monitor_target(listing_id): the registry and the notifier calls
RemoveMonitorTarget(targets, id) ==
  IF id \in DOMAIN targets
  THEN [targets |-> Without(targets, id), events |-> <<StatusFor("stopped", id)>>]
  ELSE [targets |-> targets, events |-> <<>>]

\* responses of GET /listing/{id} as get_listing_detail hands them on:
\* a Listing ("ok"), ValueError for 404 ("notfound"), the ValueError subclass
\* a malformed body raises in response.json() or Listing(**data) ("invalid"),
\* aiohttp.ClientError ("transport")
DetailOutcomes(t) ==
  [kind : {"ok"}, updated_at : 0..t]
    \cup [kind : {"notfound", "invalid", "transport"}, updated_at : {0}]

\* RaisesValueError without line 71 of api_client.py
RaisesValueErrorNot404(d) == d.kind = "invalid"

RaisesValueError(d) == d.kind \in {"notfound", "invalid"}

\* add_monitor_target with MonitorTarget(listing_id=listing_id) on line 87
AddMonitorTargetNoClock(targets, id, d) ==
  IF d.kind = "ok"
  THEN [targets |-> With(targets, id, [last_update |-> 0,
                                       time_without_update |-> 0]),
        events |-> <<StatusFor("monitoring", id)>>]
  ELSE [targets |-> targets, events |-> <<StatusFor("add failed", id)>>]

\* add_monitor_target whose except clause drops the entry of the id
AddMonitorTargetDrops(targets, id, d) ==
  IF d.kind = "ok"
  THEN [targets |-> With(targets, id, [last_update |-> d.updated_at,
                                       time_without_update |-> 0]),
        events |-> <<StatusFor("monitoring", id)>>]
  ELSE [targets |-> [x \in DOMAIN targets \ {id} |-> targets[x]],
        events |-> <<StatusFor("add failed", id)>>]

\* add_monitor_target(listing_id)
AddMonitorTarget(targets, id, d) ==
  IF d.kind = "ok"
  THEN [targets |-> With(targets, id, [last_update |-> d.updated_at,
                                       time_without_update |-> 0]),
        events |-> <<StatusFor("monitoring", id)>>]
  ELSE [targets |-> targets, events |-> <<StatusFor("add failed", id)>>]

\* OverThreshold with ">=" for ">"
AtThreshold(time_without_update, threshold) == time_without_update >= threshold

\* line 159: the staleness test
OverThreshold(time_without_update, threshold) == time_without_update > threshold

\* IsNewer with "<" for ">"
IsOlder(updated_at, last_update) == updated_at < last_update

\* line 146 with a test for any difference
IsDifferent(updated_at, last_update) == updated_at # last_update

\* line 146: the update test
IsNewer(updated_at, last_update) == updated_at > last_update

\* one pass of the for-loop of check_monitor_targets, for target id with the
\* detail response d at time t
CheckMonitorTarget(targets, id, d, t, threshold) ==
  IF RaisesValueError(d)
  THEN LET r == RemoveMonitorTarget(targets, id)
       IN [targets |-> r.targets,
           events |-> <<StatusFor("ended or deleted", id)>> \o r.events]
  ELSE IF d.kind # "ok"
  THEN [targets |-> targets, events |-> <<>>]
  ELSE IF IsNewer(d.updated_at, targets[id].last_update)
  THEN [targets |-> With(targets, id, [last_update |-> d.updated_at,
                                       time_without_update |-> 0]),
        events |-> <<Updated(id)>>]
  ELSE LET twu == t - targets[id].last_update
           aged == With(targets, id, [last_update |-> targets[id].last_update,
                                      time_without_update |-> twu])
       IN IF OverThreshold(twu, threshold)
          THEN LET r == RemoveMonitorTarget(aged, id)
               IN [targets |-> r.targets,
                   events |-> <<Expired(id, "no update")>> \o r.events]
          ELSE [targets |-> aged, events |-> <<>>]

\* show_monitor_targets with remove_monitor_target in its except clause
ShowDropsNotFound(targets, ok, notfound) ==
  [targets |-> [x \in DOMAIN targets \ notfound |-> targets[x]],
   events |-> <<[type |-> "shown", ok |-> ok, notfound |-> notfound,
                 failed |-> DOMAIN targets \ (ok \cup notfound)]>>]

\* show_monitor_targets on a registry that is not empty: the detail request
\* succeeds for the targets ok, raises ValueError (404) for the targets
\* notfound and another exception for the others; each target gets its line
ShowMonitorTargetsOn(targets, ok, notfound) ==
  [targets |-> targets,
   events |-> <<[type |-> "shown", ok |-> ok, notfound |-> notfound,
                 failed |-> DOMAIN targets \ (ok \cup notfound)]>>]

(***************************************************************************)
(* monitor.py: check_expired_by_order                                      *)
(***************************************************************************)
RECURSIVE FirstDrop(_, _)
\* the first 0-based i >= from with listings[i].time_left <
\* listings[i-1].time_left, or len(listings) when there is none
FirstDrop(listings, from) ==
  IF from >= Len(listings) THEN Len(listings)
  ELSE IF listings[from + 1].time_left < listings[from].time_left THEN from
       ELSE FirstDrop(listings, from + 1)

\* lines 186-190 (0-based, as in the code)
LastNewIndex(listings) == FirstDrop(listings, 1) - 1

\* PreviousPrefix with the slice one entry short
PreviousPrefixShort(last, listings) ==
  SubSeq(last, 1, Min(LastNewIndex(listings), Len(last)))

\* PreviousPrefix without the slice
PreviousPrefixWhole(last, listings) == last

\* self.last_listings[:last_new_index+1]
PreviousPrefix(last, listings) ==
  SubSeq(last, 1, Min(LastNewIndex(listings) + 1, Len(last)))

\* ExpiredMonitorTargets without "- current_ids"
ExpiredMonitorTargetsAll(last, listings, targets) ==
  IdsOf(PreviousPrefix(last, listings)) \cap DOMAIN targets

\* lines 194-200
ExpiredMonitorTargets(last, listings, targets) ==
  (IdsOf(PreviousPrefix(last, listings)) \ IdsOf(listings)) \cap DOMAIN targets

RECURSIVE ExpireLoop(_, _, _, _)
\* lines 202-209: the for-loop over self.last_listings from index i on
ExpireLoop(last, expired, targets, i) ==
  IF i > Len(last) THEN [targets |-> targets, events |-> <<>>]
  ELSE IF last[i].id \in expired
       THEN LET r == RemoveMonitorTarget(targets, last[i].id)
                rest == ExpireLoop(last, expired, r.targets, i + 1)
            IN [targets |-> rest.targets,
                events |-> <<Expired(last[i].id, "gone from list")>>
                             \o r.events \o rest.events]
       ELSE ExpireLoop(last, expired, targets, i + 1)

\* line 182 without "len(listings) < 2"
DetectorSkipsNoTargets(listings, targets) == DOMAIN targets = {}

\* line 182: the early return
DetectorSkips(listings, targets) == Len(listings) < 2 \/ DOMAIN targets = {}

\* line 212, and the early return that leaves the snapshot alone
SnapshotAfter(last, listings, targets) ==
  IF DetectorSkips(listings, targets) THEN last ELSE listings

CheckExpiredByOrder(last, listings, targets) ==
  IF DetectorSkips(listings, targets) \/ last = <<>>
  THEN [targets |-> targets, events |-> <<>>,
        last_listings |-> SnapshotAfter(last, listings, targets)]
  ELSE LET r == ExpireLoop(last, ExpiredMonitorTargets(last, listings, targets),
                           targets, 1)
       IN [targets |-> r.targets, events |-> r.events,
           last_listings |-> SnapshotAfter(last, listings, targets)]

(***************************************************************************)
(* The environment's answers.                                              *)
(***************************************************************************)
\* what the source holds for a condition, page by page: no page is empty
PageSeqs(cond) ==
  SeqsUpTo(SeqsUpTo(cond.pool, MaxPerPage) \ {<<>>}, cond.pages)

VerdictsFor(cond, n) ==
  IF cond.advanced THEN [1..n -> Verdicts] ELSE [1..n -> {"pass"}]

NoDetail == [kind |-> "none", updated_at |-> 0]

NoVisit == [id |-> 0, d |-> NoDetail, after |-> NoDetail]

\* hist: found = ids handed to notify_found since the last clear of the
\* notified set; ret = the list the latest search_listings call returned;
\* failed = a request of this iteration's searches failed in the transport;
\* raised = the latest search_listings call of the iteration ended in its
\* except clause;
\* would = ids the failed searches of this iteration return when no transport
\* fails, and in the menu the ids the one-off search has just returned;
\* prev = the snapshot the detector has just compared with, before the first
\* pass of check_monitor_targets; visit = the target and response d of the
\* detail request of the latest step when that was a pass of
\* check_monitor_targets or add_monitor_target, d.kind = "removed" when it
\* was remove_monitor_target, and after = the d of the step before when that
\* was about the same target
FreshHist(found) ==
  [found |-> found, ret |-> <<>>, failed |-> FALSE, raised |-> FALSE,
   would |-> {}, prev |-> <<>>, visit |-> NoVisit]

\* no function has been called directly
NoProbe == [fn |-> "none"]

\* the monitor after construction
InitMonitor(conds) ==
  /\ filter_conditions = conds
  /\ notified_listings = {}
  /\ monitor_targets = NoTargets
  /\ last_listings = <<>>
  /\ last_displayed_ids = {}
  /\ running = FALSE
  /\ pc = "menu"
  /\ ci = 1
  /\ all_listings = <<>>
  /\ todo = {}
  /\ listener = "off"
  /\ now = StartTime
  /\ events = <<>>
  /\ hist = FreshHist({})

InitWith(conds) == InitMonitor(conds) /\ probe = NoProbe

\* two enabled filters without detail-level fields, of one page each: the
\* first matches listing 1 (with or without a duty_type), the second every
\* listing that has a duty_type
Init ==
  InitWith(<<Basic(1, { l \in SmallPool : l.id = 1 }),
             Basic(1, { l \in SmallPool : l.duty_type # NoneType })>>)

\* two enabled filters, the second with detail-level fields and matching
\* listing 1 alone
InitPoll ==
  InitWith(<<Basic(MaxPages, ListingPool),
             Advanced(1, { l \in SmallPool :
                             l.id = 1 /\ l.duty_type # NoneType })>>)

(***************************************************************************)
(* main.py: the menu (no monitoring run in progress)                       *)
(***************************************************************************)
\* manage_monitor_targets / search_listings: monitor.add_monitor_target
MenuAddTarget ==
  /\ pc = "menu"
  /\ \E id \in Ids, d \in DetailOutcomes(now) :
       LET r == AddMonitorTarget(monitor_targets, id, d)
       IN /\ monitor_targets' = r.targets
          /\ events' = r.events
          /\ hist' = [FreshHist(hist.found) EXCEPT
                        !.visit = [id |-> id, d |-> d,
                                   after |-> IF hist.visit.id = id
                                             THEN hist.visit.d ELSE NoDetail]]
  /\ UNCHANGED << filter_conditions, probe, notified_listings, last_listings,
                  last_displayed_ids, running, pc, ci, all_listings, todo,
                  listener, now >>

\* manage_monitor_targets: monitor.remove_monitor_target
MenuRemoveTarget ==
  /\ pc = "menu"
  /\ \E id \in DOMAIN monitor_targets :
       LET r == RemoveMonitorTarget(monitor_targets, id)
       IN /\ monitor_targets' = r.targets
          /\ events' = r.events
          /\ hist' = [FreshHist(hist.found) EXCEPT
                        !.visit = [id |-> id,
                                   d |-> [kind |-> "removed", updated_at |-> 0],
                                   after |-> NoDetail]]
  /\ UNCHANGED << filter_conditions, probe, notified_listings, last_listings,
                  last_displayed_ids, running, pc, ci, all_listings, todo,
                  listener, now >>

\* clear_notified_listings without line 295
ClearedKeeps(notified) == notified

\* line 295: self.notified_listings.clear()
Cleared(notified) == {}

\* settings, choice 2: monitor.clear_notified_listings
ClearNotifiedListings ==
  /\ pc = "menu"
  /\ notified_listings' = Cleared(notified_listings)
  /\ events' = <<Status("notified cleared")>>
  /\ hist' = FreshHist({})
  /\ UNCHANGED << filter_conditions, probe, monitor_targets, last_listings,
                  last_displayed_ids, running, pc, ci, all_listings, todo,
                  listener, now >>

\* settings, choice 3: monitor.clear_displayed_listings
MenuClearDisplayed ==
  /\ pc = "menu"
  /\ last_displayed_ids' = {}
  /\ events' = <<Status("displayed cleared")>>
  /\ hist' = FreshHist(hist.found)
  /\ UNCHANGED << filter_conditions, probe, notified_listings,
                  monitor_targets, last_listings, running, pc, ci,
                  all_listings, todo, listener, now >>

\* a one-off search that notifies
OneOffNotifies == TRUE

\* main.py 345-349: notify=False
OneOffNotify == FALSE

\* the one-off search of the menu: search_listings(condition, name,
\* notify=False); hist.would keeps the ids it returned
MenuSearch ==
  /\ pc = "menu"
  /\ \E c \in 1..Len(filter_conditions) :
     \E pages \in PageSeqs(filter_conditions[c]) :
     \E failAt \in 0..(IF pages = <<>> THEN 1 ELSE Len(pages)) :
       \E verdicts \in VerdictsFor(filter_conditions[c], Len(Concat(pages))) :
         LET r == SearchListings(filter_conditions[c], notified_listings,
                                 monitor_targets, pages, failAt, verdicts,
                                 OneOffNotify)
         IN /\ notified_listings' = r.notified
            /\ events' = FoundEvents(r, filter_conditions[c].name)
            /\ hist' = [FreshHist(hist.found \cup IdsOf(r.found))
                          EXCEPT !.would = IdsOf(r.ret)]
  /\ UNCHANGED << filter_conditions, probe, monitor_targets, last_listings,
                  last_displayed_ids, running, pc, ci, all_listings, todo,
                  listener, now >>

\* start_monitoring: gather(continuous_search, input_listener) up to the
\* first await of continuous_search
StartMonitoring ==
  /\ pc = "menu"
  /\ running' = TRUE
  /\ pc' = "head"
  /\ listener' = "listening"
  /\ events' = <<Status("start")>>
  /\ hist' = FreshHist(hist.found)
  /\ UNCHANGED << filter_conditions, probe, notified_listings,
                  monitor_targets, last_listings, last_displayed_ids, ci,
                  all_listings, todo, now >>

(***************************************************************************)
(* monitor.py: continuous_search, cut at its awaits                        *)
(***************************************************************************)
\* the while-loop with "while True:"
LoopForever(isRunning) == TRUE

\* line 224: "while self.running:"
LoopContinues(isRunning) == isRunning

\* "while self.running:" and the start of an iteration, or the exit (line 291)
LoopHead ==
  /\ pc = "head"
  /\ IF LoopContinues(running)
     THEN /\ pc' = "search"
          /\ ci' = 1
          /\ all_listings' = <<>>
          /\ events' = <<>>
          /\ hist' = FreshHist(hist.found)
     ELSE /\ pc' = "ended"
          /\ events' = <<Status("loop ended")>>
          /\ UNCHANGED << ci, all_listings, hist >>
  /\ UNCHANGED << filter_conditions, probe, notified_listings,
                  monitor_targets, last_listings, last_displayed_ids, running,
                  todo, listener, now >>

\* search_listings without its try/except
SearchFailurePropagates(r) == r.raised

\* lines 79-81: "except Exception" turns a failed search into an empty result
SearchPropagates(r) == FALSE

\* the except clause of the loop with "break" on both branches
HandlerBreaks(isRunning) == FALSE

\* lines 282-289: the except clause of the loop, entered with self.running
HandlerContinues(isRunning) == isRunning

\* the searches of an iteration so far: found, failed and would of hist
\* after the search that gave r
Searched(h, cond, r, pages, verdicts) ==
  [h EXCEPT
     !.found = @ \cup IdsOf(r.found),
     !.ret = r.ret,
     !.failed = @ \/ r.raised,
     !.raised = r.raised,
     !.would = @ \cup IF r.raised
                      THEN IdsOf(FilteredListings(cond, Concat(pages), verdicts))
                      ELSE {}]

\* lines 282-289: the except clause of the loop; evs are the notifications
\* the iteration made before the raise
Handler(evs, found) ==
  /\ pc' = IF HandlerContinues(running) THEN "err_sleep" ELSE "ended"
  /\ events' = evs \o <<Status(IF HandlerContinues(running)
                              THEN "error" ELSE "loop ended")>>
  /\ hist' = FreshHist(found)
  /\ ci' = 1
  /\ all_listings' = <<>>

\* lines 254-270: the table of an iteration without targets
DisplayedAfter(listings, displayed) ==
  IF listings # <<>> /\ IdsOf(listings) \ displayed # {}
  THEN IdsOf(listings) ELSE displayed

\* line 261 with "if current_ids != self.last_displayed_ids"
TableEventsOnChange(listings, displayed) ==
  IF listings # <<>> /\ IdsOf(listings) # displayed
  THEN <<[type |-> "table", ids |-> IdsOf(listings)]>> ELSE <<>>

\* lines 256-266: the call of show_listings_table
TableEvents(listings, displayed) ==
  IF listings # <<>> /\ IdsOf(listings) \ displayed # {}
  THEN <<[type |-> "table", ids |-> IdsOf(listings)]>> ELSE <<>>

\* lines 233-277 without targets: sort, table, status line
MergeNoTargets(merged, evs) ==
  LET sorted == SortListings(merged)
  IN /\ all_listings' = sorted
     /\ last_displayed_ids' = DisplayedAfter(sorted, last_displayed_ids)
     /\ events' = evs \o TableEvents(sorted, last_displayed_ids)
                      \o <<Status("checked")>>
     /\ pc' = "sleep"

\* lines 233-246 with targets: sort, then show_monitor_targets is entered
MergeWithTargets(merged, evs) ==
  /\ all_listings' = SortListings(merged)
  /\ events' = evs
  /\ pc' = "show"
  /\ UNCHANGED last_displayed_ids

\* lines 229-231: search_listings(condition, name) and the extend; after the
\* last condition the sort follows without an await: it raises (TypeError,
\* to the except clause of the loop) or the iteration goes on
SearchStep ==
  /\ pc = "search"
  /\ \E pages \in PageSeqs(filter_conditions[ci]) :
     \E failAt \in 0..(IF pages = <<>> THEN 1 ELSE Len(pages)) :
     \E verdicts \in VerdictsFor(filter_conditions[ci], Len(Concat(pages))) :
       LET cond == filter_conditions[ci]
           r == SearchListings(cond, notified_listings, monitor_targets,
                               pages, failAt, verdicts, TRUE)
           merged == all_listings \o r.ret
           evs == FoundEvents(r, cond.name)
           h == Searched(hist, cond, r, pages, verdicts)
       IN /\ notified_listings' = r.notified
          /\ IF SearchPropagates(r)
             THEN Handler(<<>>, hist.found) /\ UNCHANGED last_displayed_ids
             ELSE IF ci < Len(filter_conditions)
             THEN /\ all_listings' = merged
                  /\ ci' = ci + 1
                  /\ pc' = "search"
                  /\ events' = evs
                  /\ hist' = h
                  /\ UNCHANGED last_displayed_ids
             ELSE IF SortRaises(merged)
             THEN Handler(evs, h.found) /\ UNCHANGED last_displayed_ids
             ELSE /\ IF DOMAIN monitor_targets = {}
                     THEN /\ MergeNoTargets(merged, evs)
                          /\ hist' = h
                     ELSE /\ MergeWithTargets(merged, evs)
                          /\ hist' = [h EXCEPT !.ret = <<>>]
                  /\ ci' = ci
  /\ UNCHANGED << filter_conditions, probe, monitor_targets, last_listings,
                  running, todo, listener, now >>

\* lines 246-253: show_monitor_targets (one detail request per target,
\* nothing stored), then without an await the detector when enabled and
\* all_listings is not empty, then list(self.monitor_targets.items()) of
\* check_monitor_targets
ShowMonitorTargets ==
  /\ pc = "show"
  /\ \E ok \in SUBSET DOMAIN monitor_targets :
     \E notfound \in SUBSET (DOMAIN monitor_targets \ ok) :
       LET s == ShowMonitorTargetsOn(monitor_targets, ok, notfound)
       IN IF EnableExpireCheck /\ all_listings # <<>>
          THEN LET r == CheckExpiredByOrder(last_listings, all_listings,
                                            s.targets)
               IN /\ monitor_targets' = r.targets
                  /\ last_listings' = r.last_listings
                  /\ events' = s.events \o r.events
          ELSE /\ events' = s.events
               /\ monitor_targets' = s.targets
               /\ UNCHANGED last_listings
  /\ todo' = DOMAIN monitor_targets'
  /\ pc' = "check"
  /\ hist' = [FreshHist(hist.found) EXCEPT
                !.prev = IF EnableExpireCheck /\ all_listings # <<>>
                         THEN last_listings ELSE <<>>]
  /\ UNCHANGED << filter_conditions, probe, notified_listings,
                  last_displayed_ids, running, ci, all_listings, listener,
                  now >>

\* lines 173-174: "except Exception" keeps the for-loop going
CheckPropagates(d) == FALSE

\* one pass of the for-loop of check_monitor_targets
CheckTarget ==
  /\ pc = "check"
  /\ todo # {}
  /\ \E id \in todo, d \in DetailOutcomes(now) :
       /\ hist' = [hist EXCEPT !.visit = [id |-> id, d |-> d, after |-> NoDetail],
                               !.prev = <<>>]
       /\ IF CheckPropagates(d)
          THEN /\ pc' = IF HandlerContinues(running) THEN "err_sleep" ELSE "ended"
               /\ events' = <<Status(IF HandlerContinues(running)
                                     THEN "error" ELSE "loop ended")>>
               /\ UNCHANGED << monitor_targets, todo >>
          ELSE LET r == CheckMonitorTarget(monitor_targets, id, d, now,
                                           ExpireThreshold)
               IN /\ monitor_targets' = r.targets
                  /\ events' = r.events
                  /\ todo' = todo \ {id}
                  /\ pc' = "check"
  /\ UNCHANGED << filter_conditions, probe, notified_listings, last_listings,
                  last_displayed_ids, running, ci, all_listings, listener,
                  now >>

\* lines 273-277: the status line that ends the iteration's work
CheckDone ==
  /\ pc = "check"
  /\ todo = {}
  /\ pc' = "sleep"
  /\ events' = <<Status("checked")>>
  /\ hist' = FreshHist(hist.found)
  /\ UNCHANGED << filter_conditions, probe, notified_listings,
                  monitor_targets, last_listings, last_displayed_ids, running,
                  ci, all_listings, todo, listener, now >>

\* lines 280 and 286: asyncio.sleep(self.check_interval) returns, after
\* check_interval or more.  The clock stops at MaxNow: a sleep started there
\* returns only to let a stopped loop end.
Sleep ==
  /\ pc \in {"sleep", "err_sleep"}
  /\ \/ \E d \in CheckInterval..(MaxNow - now) : now' = now + d
     \/ now + CheckInterval > MaxNow /\ ~running /\ now' = now
  /\ pc' = "head"
  /\ events' = <<>>
  /\ ci' = 1
  /\ all_listings' = <<>>
  /\ hist' = FreshHist(hist.found)
  /\ UNCHANGED << filter_conditions, probe, notified_listings,
                  monitor_targets, last_listings, last_displayed_ids, running,
                  todo, listener >>

(***************************************************************************)
(* monitor.py stop_monitoring, main.py input_listener                     *)
(***************************************************************************)
\* 'q', 'quit' or end of input
ListenerStop ==
  /\ listener = "listening"
  /\ running' = FALSE
  /\ listener' = "done"
  /\ events' = <<Status("stopping")>>
  /\ UNCHANGED << filter_conditions, probe, notified_listings,
                  monitor_targets, last_listings, last_displayed_ids, pc, ci,
                  all_listings, todo, now, hist >>

\* a 'clear' that calls clear_notified_listings as well
ClearCommandBoth(notified, displayed) == [notified |-> {}, displayed |-> {}]

\* main.py 480-481 and monitor.py 298-301: what 'clear' does to the two sets
ClearCommand(notified, displayed) == [notified |-> notified, displayed |-> {}]

\* 'clear'
ListenerClear ==
  /\ listener = "listening"
  /\ last_displayed_ids'
       = ClearCommand(notified_listings, last_displayed_ids).displayed
  /\ notified_listings'
       = ClearCommand(notified_listings, last_displayed_ids).notified
  /\ events' = <<Status("displayed cleared")>>
  /\ UNCHANGED << filter_conditions, probe, monitor_targets, last_listings,
                  running, pc, ci, all_listings, todo, listener, now, hist >>

\* what 'status', 'help' and an unknown command do: a line on the console
Console == [type |-> "console"]

\* main.py 478-485: 'status', 'help' or an unknown command
ListenerPrints ==
  /\ listener = "listening"
  /\ events' = <<Console>>
  /\ UNCHANGED << filter_conditions, probe, notified_listings,
                  monitor_targets, last_listings, last_displayed_ids, running,
                  pc, ci, all_listings, todo, listener, now, hist >>

\* a wait that returns when the listener has finished
ListenerFinished(loop, input) == input = "done"

\* main.py 497-500, asyncio.gather: both tasks have finished
Gathered(loop, input) == loop = "ended" /\ input = "done"

\* gather() returns and start_monitoring with it
ReturnToMenu ==
  /\ Gathered(pc, listener)
  /\ pc' = "menu"
  /\ listener' = "off"
  /\ events' = <<>>
  /\ UNCHANGED << filter_conditions, probe, notified_listings,
                  monitor_targets, last_listings, last_displayed_ids, running,
                  ci, all_listings, todo, now, hist >>

Next ==
  \/ MenuAddTarget
  \/ MenuRemoveTarget
  \/ ClearNotifiedListings
  \/ MenuClearDisplayed
  \/ MenuSearch
  \/ StartMonitoring
  \/ LoopHead
  \/ SearchStep
  \/ ShowMonitorTargets
  \/ CheckTarget
  \/ CheckDone
  \/ Sleep
  \/ ListenerStop
  \/ ListenerClear
  \/ ReturnToMenu

Spec == Init /\ [][Next]_vars

\* the poll loop alone: the operator types no command while it runs
NextPoll ==
  \/ MenuAddTarget
  \/ StartMonitoring
  \/ LoopHead
  \/ SearchStep
  \/ ShowMonitorTargets
  \/ CheckTarget
  \/ CheckDone
  \/ Sleep

SpecPoll == InitPoll /\ [][NextPoll]_vars

\* one enabled filter of one page
InitStop == InitWith(<<Basic(1, SmallPool)>>)

\* a step of the continuous_search task
LoopStep ==
  \/ LoopHead
  \/ SearchStep
  \/ ShowMonitorTargets
  \/ CheckTarget
  \/ CheckDone
  \/ Sleep

\* the whole application with one filter; the event loop runs the
\* continuous_search task whenever it can take a step: every request is
\* answered or fails, and every sleep returns
SpecStop == InitStop /\ [][Next]_vars /\ WF_vars(LoopStep)

\* the application with every command of the input listener
NextCmd ==
  \/ Next
  \/ ListenerPrints

SpecCmd == InitStop /\ [][NextCmd]_vars

(***************************************************************************)
(* Direct calls of the functions of api_client.py and of the sort.         *)
(***************************************************************************)
\* the variables of the monitor, which a direct call leaves alone
monitor_vars ==
  << notified_listings, monitor_targets, last_listings, last_displayed_ids,
     running, filter_conditions, pc, ci, all_listings, todo, listener, now,
     events, hist >>

\* the pages of a source that reports total_pages = Len(pages) >= 1
SourcePages == SeqsUpTo(SeqsUpTo(SmallPool, MaxPerPage) \ {<<>>}, MaxPages) \ {<<>>}

\* values of the argument max_pages
Caps == {NoCap} \cup { Cap(n) : n \in 0..(MaxPages + 1) }

\* the calls get_all_listings(None, max_pages) against a source with pages
\* of the set sources, of which request failAt fails
GetAllListingsCalls(sources) ==
  { [fn |-> "get_all_listings", returned |-> FALSE, pages |-> pages,
     failAt |-> failAt, max_pages |-> max_pages] :
      pages \in sources, failAt \in 0..MaxPages, max_pages \in Caps }

CallGetAllListings ==
  /\ probe.fn = "get_all_listings" /\ ~probe.returned
  /\ probe' = [fn |-> probe.fn, returned |-> TRUE, pages |-> probe.pages,
               failAt |-> probe.failAt, max_pages |-> probe.max_pages,
               out |-> GetAllListings(probe.pages, probe.failAt,
                                      probe.max_pages)]
  /\ UNCHANGED monitor_vars

\* update times in two minutes, two of them in the same minute
SortTimes == {0, SecondsPerMinute - 1, SecondsPerMinute}

\* the listings a merged list is made of
SortPool ==
  Listings(Ids, 1..MaxTimeLeft, SortTimes, 1..MaxDuty)
    \cup Listings({1}, {1}, {0, SecondsPerMinute}, {NoneType})

\* the merged lists of a poll iteration, made of the listings of pool
SortCalls(pool) ==
  { [fn |-> "sort", returned |-> FALSE, merged |-> merged] :
      merged \in SeqsUpTo(pool, MaxMerged) }

\* all_listings.sort(key=..., reverse=True) on the merged list
CallSort ==
  /\ probe.fn = "sort" /\ ~probe.returned
  /\ probe' = [fn |-> probe.fn, returned |-> TRUE, merged |-> probe.merged,
               raises |-> SortRaises(probe.merged),
               out |-> IF SortRaises(probe.merged) THEN <<>>
                       ELSE SortListings(probe.merged)]
  /\ UNCHANGED monitor_vars

\* a FilterCondition without detail-level fields
NoFields ==
  [exclude_jobs |-> None({}), min_slots_available |-> None(0),
   max_slots_filled |-> None(0), beginners_welcome |-> None(FALSE),
   content_keywords |-> None(<<>>)]

\* conditions whose detail-level fields are None or empty
EmptyConditions ==
  { [NoFields EXCEPT !.exclude_jobs = e, !.content_keywords = k] :
      e \in {None({}), Some({})}, k \in {None(<<>>), Some(<<>>)} }

\* conditions with one of the fields about the slot counts and the beginners
SlotConditions ==
  { [NoFields EXCEPT !.min_slots_available = Some(n)] : n \in 0..MaxSlotCount }
    \cup { [NoFields EXCEPT !.max_slots_filled = Some(n)] : n \in 0..MaxSlotCount }
    \cup { [NoFields EXCEPT !.beginners_welcome = Some(b)] : b \in BOOLEAN }

JobIds == { JOB_CODE_TO_ID[code] : code \in DOMAIN JOB_CODE_TO_ID }

\* conditions with excluded jobs, alone and with other fields
ExcludeConditions ==
  { [NoFields EXCEPT !.exclude_jobs = Some(e), !.min_slots_available = n,
                     !.beginners_welcome = b, !.content_keywords = k] :
      e \in SUBSET JobIds \ {{}}, n \in {None(0), Some(MaxSlotCount)},
      b \in {None(FALSE), Some(TRUE)}, k \in {None(<<>>), Some(<<"a">>)} }

\* conditions with keywords alone
KeywordConditions ==
  { [NoFields EXCEPT !.content_keywords = Some(k)] :
      k \in SeqsUpTo({"a", "A", "d", " "}, MaxKeywordLen) \ {<<>>} }

Conditions ==
  EmptyConditions \cup SlotConditions \cup ExcludeConditions
    \cup KeywordConditions

\* SlotInfo.job: one code, in lower case, two codes, a code that is not in
\* the table, no code
JobStrings ==
  {PLD, Lower(WAR), PLD \o <<" ">> \o Lower(WAR), <<"A", "D", "V">>, <<>>}

SlotInfos == { [filled |-> f, job |-> j] : f \in BOOLEAN, j \in JobStrings }

\* details that differ in the slots
SlotDetails ==
  { [slots |-> sl, slots_available |-> MaxSlotCount,
     slots_filled |-> MaxSlotCount, beginners_welcome |-> Some(TRUE),
     description |-> <<"a">>] :
      sl \in {None(<<>>)} \cup { Some(l) : l \in SeqsUpTo(SlotInfos, MaxSlots) } }

\* details that differ in the other fields
TextDetails ==
  { [slots |-> None(<<>>), slots_available |-> a, slots_filled |-> f,
     beginners_welcome |-> b, description |-> d] :
      a \in 0..MaxSlotCount, f \in 0..MaxSlotCount,
      b \in {None(FALSE), Some(TRUE), Some(FALSE)},
      d \in SeqsUpTo({"a", "A", "d"}, MaxDescriptionLen) }

\* the answers of get_listing_detail
Responses ==
  { [kind |-> "ok", detail |-> d] : d \in SlotDetails \cup TextDetails }
    \cup { [kind |-> k, detail |-> CHOOSE d \in TextDetails : TRUE] :
             k \in {"gone", "error"} }

\* the upper limit of per_page
PerPageLimit == 100

RECURSIVE Str(_)
\* str(n) of a natural number
Str(n) ==
  LET digits == <<"0", "1", "2", "3", "4", "5", "6", "7", "8", "9">>
  IN  IF n < 10 THEN <<digits[n + 1]>>
      ELSE Str(n \div 10) \o <<digits[(n % 10) + 1]>>

RECURSIVE Join(_)
\* ",".join(parts)
Join(parts) ==
  IF parts = <<>> THEN <<>>
  ELSE IF Len(parts) = 1 THEN parts[1]
  ELSE parts[1] \o <<",">> \o Join(Tail(parts))

QueryKeys == {"category", "world", "datacenter", "search", "jobs", "duty"}

DetailKeys ==
  {"exclude_jobs", "min_slots_available", "max_slots_filled",
   "beginners_welcome", "content_keywords"}

\* a test `is not None` in the place of the truth of the field
QueryFieldGiven(x) == x.given

\* lines 42-52: `if filter_condition.<field>:`, the truth of an Optional
\* string or list
QueryFieldSet(x) == x.given /\ x.v # <<>>

\* lines 35-52: the params of the request; filter_condition is None(..) or
\* Some(condition)
GetListingsParams(page, per_page, filter_condition) ==
  LET c == filter_condition.v
      keys == IF filter_condition.given
                THEN { k \in QueryKeys : QueryFieldSet(c[k]) }
                ELSE {}
      value(k) ==
        CASE k = "page" -> Str(page)
          [] k = "per_page" ->
               Str(IF per_page < PerPageLimit THEN per_page ELSE PerPageLimit)
          [] k \in {"jobs", "duty"} ->
               Join([i \in DOMAIN c[k].v |-> Str(c[k].v[i])])
          [] OTHER -> c[k].v
  IN  [k \in {"page", "per_page"} \cup keys |-> value(k)]

\* the query-level fields of a condition
QueryFields ==
  { [category |-> ca, world |-> w, datacenter |-> dc, search |-> se,
     jobs |-> j, duty |-> du] :
      ca \in {None(<<>>), Some(<<>>), Some(<<"a">>)},
      w \in {None(<<>>), Some(<<>>), Some(<<"a">>)},
      dc \in {None(<<>>), Some(<<"a">>)},
      se \in {None(<<>>), Some(<<"a", " ">>)},
      j \in {None(<<>>), Some(<<>>),
             Some(<<JOB_CODE_TO_ID[PLD], JOB_CODE_TO_ID[WAR]>>)},
      du \in {None(<<>>), Some(<<>>), Some(<<0>>)} }

\* conditions with query-level and detail-level fields
FullConditions ==
  { q @@ d :
      q \in QueryFields,
      d \in { NoFields,
              [NoFields EXCEPT !.exclude_jobs = Some({JOB_CODE_TO_ID[PLD]}),
                               !.max_slots_filled = Some(MaxSlotCount),
                               !.content_keywords = Some(<<"a">>)] } }

GetListingsCalls ==
  { [fn |-> "get_listings", returned |-> FALSE, page |-> p, per_page |-> pp,
     filter_condition |-> c] :
      p \in 1..MaxPages,
      pp \in {MaxPerPage, PerPageLimit, PerPageLimit + 1},
      c \in {None(NoFields)} \cup { Some(f) : f \in FullConditions } }

CallGetListings ==
  /\ probe.fn = "get_listings" /\ ~probe.returned
  /\ probe' = [fn |-> probe.fn, returned |-> TRUE, page |-> probe.page,
               per_page |-> probe.per_page,
               filter_condition |-> probe.filter_condition,
               out |-> GetListingsParams(probe.page, probe.per_page,
                                         probe.filter_condition)]
  /\ UNCHANGED monitor_vars

CheckAdvancedFiltersCalls(conditions, responses) ==
  { [fn |-> "check_advanced_filters", returned |-> FALSE,
     filter_condition |-> c, response |-> r] :
      c \in conditions, r \in responses }

CallCheckAdvancedFilters ==
  /\ probe.fn = "check_advanced_filters" /\ ~probe.returned
  /\ probe' = [fn |-> probe.fn, returned |-> TRUE,
               filter_condition |-> probe.filter_condition,
               response |-> probe.response,
               out |-> CheckAdvancedFiltersOn(probe.filter_condition,
                                              probe.response)]
  /\ UNCHANGED monitor_vars

\* a function is about to be called with arguments of the sets above
InitFn ==
  /\ InitMonitor(<<>>)
  /\ probe \in GetAllListingsCalls(SourcePages) \cup SortCalls(SortPool)
                \cup CheckAdvancedFiltersCalls(Conditions, Responses)
                \cup GetListingsCalls

NextFn ==
  \/ CallGetAllListings
  \/ CallSort
  \/ CallCheckAdvancedFilters
  \/ CallGetListings

SpecFn == InitFn /\ [][NextFn]_vars

(***************************************************************************)
(* Properties.                                                             *)
(***************************************************************************)
ExpiredFor(evs, id, reason) ==
  \E i \in 1..Len(evs) :
    evs[i].type = "expired" /\ evs[i].id = id /\ evs[i].reason = reason

FoundIds(evs) ==
  UNION { IF evs[i].type = "found" THEN evs[i].ids ELSE {} : i \in 1..Len(evs) }

\* the step is the detector's (lines 249-250 reached with a non-empty list)
DetectorRuns == pc = "show" /\ pc' = "check" /\ all_listings # <<>>

\* C1: an id handed to notify_found is not handed to it again by any later
\* search, in any iteration and for any condition, until
\* clear_notified_listings is called.
C1_NotifiedOnce == [][FoundIds(events') \cap hist.found = {}]_vars

\* the last search of an iteration has returned listings, all notified
\* before, and has made no notify_found call
C1_Witness ==
  /\ pc = "sleep"
  /\ hist.ret # <<>>
  /\ IdsOf(hist.ret) \subseteq notified_listings
  /\ FoundIds(events) = {}

\* C2: the detector never removes a target, and never reports it expired,
\* when the target's id is in the current sequence.
C2_PresentNotRemoved ==
  [][DetectorRuns =>
       \A x \in DOMAIN monitor_targets \cap IdsOf(all_listings) :
         /\ x \in DOMAIN monitor_targets'
         /\ ~ExpiredFor(events', x, "gone from list")]_vars

\* the detector has just removed one target and kept another that was in the
\* compared prefix of the previous snapshot too, and is in the current sequence
C2_Witness ==
  /\ pc = "check"
  /\ hist.prev # <<>>
  /\ \E x \in DOMAIN monitor_targets, y \in Ids :
       /\ x \in IdsOf(all_listings)
       /\ x \in IdsOf(PreviousPrefix(hist.prev, all_listings))
       /\ ExpiredFor(events, y, "gone from list")

\* the 0-based index k that ends the leading run of s whose time_left values
\* are non-decreasing
ConfirmedPrefixEnd(s) ==
  CHOOSE k \in 0..(Len(s) - 1) :
    /\ \A i \in 1..k : s[i + 1].time_left >= s[i].time_left
    /\ k = Len(s) - 1 \/ s[k + 2].time_left < s[k + 1].time_left

\* the entries of s at the 0-based indices 0..k
FirstUpTo(s, k) == { s[i].id : i \in 1..Min(k + 1, Len(s)) }

\* C3 as stated: a monitored id in the confirmed-current prefix of the
\* previous snapshot (the leading non-decreasing run of the previous snapshot)
\* that is absent from the current sequence of two or more listings is
\* reported expired and removed by the detector.
C3_AsStated ==
  [][DetectorRuns /\ Len(all_listings) >= 2 /\ last_listings # <<>> =>
       \A x \in DOMAIN monitor_targets :
         /\ x \in FirstUpTo(last_listings, ConfirmedPrefixEnd(last_listings))
         /\ x \notin IdsOf(all_listings)
         => /\ x \notin DOMAIN monitor_targets'
            /\ ExpiredFor(events', x, "gone from list")]_vars

\* C3, amended: with two or more listings in the current sequence, a monitored
\* id among the first k+1 entries of the previous snapshot, k being the end of
\* the confirmed-current prefix of the CURRENT sequence, that is absent from
\* the current sequence is reported expired and removed by the detector.
C3_CurrentPrefix ==
  [][DetectorRuns /\ Len(all_listings) >= 2 /\ last_listings # <<>> =>
       \A x \in DOMAIN monitor_targets :
         /\ x \in FirstUpTo(last_listings, ConfirmedPrefixEnd(all_listings))
         /\ x \notin IdsOf(all_listings)
         => /\ x \notin DOMAIN monitor_targets'
            /\ ExpiredFor(events', x, "gone from list")]_vars

\* the detector has just removed a target that was in the previous snapshot
\* at the last index the current sequence's prefix allows
C3_Witness ==
  /\ pc = "check"
  /\ Len(all_listings) >= 2
  /\ \E x \in Ids :
       /\ ExpiredFor(events, x, "gone from list")
       /\ x \notin DOMAIN monitor_targets
       /\ ConfirmedPrefixEnd(all_listings) + 1 <= Len(hist.prev)
       /\ hist.prev[ConfirmedPrefixEnd(all_listings) + 1].id = x
       /\ ConfirmedPrefixEnd(all_listings) < Len(all_listings) - 1

\* C4 as stated: when an iteration has completed, last_listings is the
\* iteration's merged and sorted sequence, also when the detector was skipped.
C4_SnapshotIsLatest == pc = "sleep" => last_listings = all_listings

\* the pass of check_monitor_targets this step makes, if it makes one
CheckPass == pc = "check" /\ todo' # todo

ExpiredAny(evs, id) ==
  \E i \in 1..Len(evs) : evs[i].type = "expired" /\ evs[i].id = id

UpdatedAny(evs, id) ==
  \E i \in 1..Len(evs) : evs[i].type = "updated" /\ evs[i].id = id

\* C5: a pass of check_monitor_targets whose detail is not newer than the
\* stored update time reports the target expired and removes it when the time
\* since the stored update time is greater than expire_threshold, and keeps
\* it without an expired notification otherwise.
C5_Staleness ==
  [][CheckPass /\ hist'.visit.d.kind = "ok"
       /\ hist'.visit.d.updated_at <= monitor_targets[hist'.visit.id].last_update
     => LET id == hist'.visit.id
        IN IF now - monitor_targets[id].last_update > ExpireThreshold
           THEN /\ ExpiredFor(events', id, "no update")
                /\ id \notin DOMAIN monitor_targets'
           ELSE /\ id \in DOMAIN monitor_targets'
                /\ ~ExpiredAny(events', id)]_vars

\* a pass has just removed a target for staleness while the other target,
\* still to be checked, has the same age
C5_Witness ==
  /\ pc = "check"
  /\ hist.visit.d.kind = "ok"
  /\ ExpiredFor(events, hist.visit.id, "no update")
  /\ hist.visit.id \notin DOMAIN monitor_targets
  /\ todo # {}

\* C6: a pass of check_monitor_targets whose detail request answers 404
\* removes the target in that pass, does not look at it again in this call
\* and reports no update; the call ends only when every target that was in
\* the registry at its start has had its pass.
C6_NotFoundRemoves ==
  [][/\ CheckPass /\ hist'.visit.d.kind = "notfound"
        => LET id == hist'.visit.id
           IN /\ id \notin DOMAIN monitor_targets'
              /\ ~UpdatedAny(events', id)
              /\ todo' = todo \ {id}
              /\ pc' = "check"
     /\ pc = "show" /\ pc' = "check" => todo' = DOMAIN monitor_targets'
     /\ pc = "check" => todo' \subseteq todo
     /\ pc = "check" /\ pc' # "check" => todo = {}]_vars

\* a pass has just removed a target on 404 and another target still has its
\* pass to come
C6_Witness ==
  /\ pc = "check"
  /\ hist.visit.d.kind = "notfound"
  /\ hist.visit.id \notin DOMAIN monitor_targets
  /\ todo # {}
  /\ todo \subseteq DOMAIN monitor_targets

\* C7: a pass of check_monitor_targets whose detail is newer than the stored
\* update time reports an update, stores the detail's update time, sets the
\* staleness to 0 and keeps the target, whatever expire_threshold is.
C7_UpdateResets ==
  [][CheckPass /\ hist'.visit.d.kind = "ok"
       /\ hist'.visit.d.updated_at > monitor_targets[hist'.visit.id].last_update
     => LET id == hist'.visit.id
        IN /\ events' = <<Updated(id)>>
           /\ id \in DOMAIN monitor_targets'
           /\ monitor_targets'[id].last_update = hist'.visit.d.updated_at
           /\ monitor_targets'[id].time_without_update = 0]_vars

\* a pass has just reported an update for a target whose stored update time
\* was more than expire_threshold ago
C7_Witness ==
  /\ pc = "check"
  /\ hist.visit.d.kind = "ok"
  /\ events = <<Updated(hist.visit.id)>>
  /\ hist.visit.id \in DOMAIN monitor_targets
  /\ monitor_targets[hist.visit.id].last_update = hist.visit.d.updated_at
  /\ now - (hist.visit.d.updated_at - 1) > ExpireThreshold

\* C8 as stated: in an iteration in which a request of a search failed in the
\* transport, a target that the source still lists, whose detail request has
\* just succeeded and whose stored update time is within expire_threshold is
\* not removed.
C8_TransportNeverRemoves ==
  [][DetectorRuns /\ hist.failed
     => \A x \in DOMAIN monitor_targets :
          /\ x \in hist.would
          /\ x \in events'[1].ok
          /\ now - monitor_targets[x].last_update <= ExpireThreshold
          => x \in DOMAIN monitor_targets']_vars

\* C9: a search that fails does not keep the conditions after it from being
\* searched and their results from being merged in the same iteration, and
\* a pass of check_monitor_targets that fails does not keep the targets after
\* it from having their pass.
C9_FailureIsLocal ==
  [][/\ pc = "search" /\ ci < Len(filter_conditions)
        => /\ pc' = "search"
           /\ ci' = ci + 1
           /\ all_listings' = all_listings \o hist'.ret
     /\ pc = "search" /\ pc' \in {"show", "sleep"}
        => IdsOf(all_listings) \subseteq IdsOf(all_listings')
     /\ pc = "check" /\ todo # {}
        => /\ pc' = "check"
           /\ \E id \in todo : todo' = todo \ {id} /\ hist'.visit.id = id]_vars

\* the first condition's search has failed, and the listings the second
\* condition's search returned are in the merged list
C9_Witness ==
  /\ pc = "sleep"
  /\ hist.failed
  /\ hist.ret # <<>>
  /\ all_listings = hist.ret

\* C10: a failure raised in an iteration while running is set leads to a
\* status line, a sleep of check_interval and the head of the loop, which
\* starts another iteration; the loop ends only when running is not set.
C10_FailureContinues ==
  [][/\ pc = "search" /\ running /\ pc' \notin {"search", "show", "sleep"}
        => pc' = "err_sleep" /\ events'[Len(events')] = Status("error")
     /\ pc = "err_sleep" /\ pc' # pc
        => pc' = "head" /\ (running => now' >= now + CheckInterval)
     /\ pc = "head" /\ running /\ pc' # pc => pc' = "search"
     /\ pc # "ended" /\ pc' = "ended" => ~running]_vars

\* the sort has just raised with running set: the loop is in the handler's
\* sleep
C10_Witness ==
  /\ pc = "err_sleep"
  /\ running
  /\ events # <<>>
  /\ events[Len(events)] = Status("error")

\* the steps of an iteration's work: searches, show_monitor_targets and the
\* detector, passes of check_monitor_targets
Working == pc \in {"search", "show", "check"}

\* C11 as stated: when running has been cleared while the work of an
\* iteration is in progress, the iteration does not end in the sleep of
\* check_interval.
C11_NoSleepAfterStop ==
  [][Working /\ ~running => pc' \notin {"sleep", "err_sleep"}]_vars

\* C12 as stated: a sleep during which running has been cleared returns at
\* once, without the clock having advanced.
C12_StopInterruptsSleep ==
  [][~running /\ pc \in {"sleep", "err_sleep"} /\ pc' # pc
       => (now' = now)]_vars

\* C13: once running has been cleared during a run, the loop head starts no
\* iteration, and the continuous_search task reaches its end.
C13_StopEndsRun ==
  /\ [][~running /\ pc # "search" => pc' # "search"]_vars
  /\ (listener = "done") ~> (pc = "ended")

\* a run that notified listings has ended after a stop
C13_Witness ==
  /\ pc = "ended"
  /\ listener = "done"
  /\ ~running
  /\ all_listings = <<>>
  /\ notified_listings # {}

\* C14 as stated: against a source of T >= 1 pages of which no request fails,
\* get_all_listings makes T requests when max_pages is None and
\* min(max_pages, T) requests for every max_pages >= 0.
C14_RequestCount ==
  probe.fn = "get_all_listings" /\ probe.returned /\ probe.out.ok
    => probe.out.requests = IF probe.max_pages.given
                            THEN Min(probe.max_pages.n, Len(probe.pages))
                            ELSE Len(probe.pages)

\* the sort has returned a list
Sorted == probe.fn = "sort" /\ probe.returned /\ ~probe.raises

\* entries of one minute and one duty type
SameGroup(a, b) ==
  /\ TruncMinute(a.updated_at) = TruncMinute(b.updated_at)
  /\ a.duty_type = b.duty_type

\* the sorted list is the merged list rearranged by p, and entries equal on
\* all three keys are in their merge order
StableRearrangement(p) ==
  /\ \A i \in 1..Len(probe.out) : probe.out[i] = probe.merged[p[i]]
  /\ \A i, j \in 1..Len(probe.out) :
       (/\ i < j
        /\ SameGroup(probe.out[i], probe.out[j])
        /\ probe.out[i].time_left = probe.out[j].time_left) => p[i] < p[j]

\* C15 as stated: in the sorted merged list a more recent update minute
\* comes first, and among entries of one minute and one duty type an entry
\* with a longer remaining time precedes one with a shorter remaining time.
C15_AsStated ==
  Sorted =>
    \A i, j \in 1..Len(probe.out) :
      i < j =>
        /\ TruncMinute(probe.out[i].updated_at)
             >= TruncMinute(probe.out[j].updated_at)
        /\ SameGroup(probe.out[i], probe.out[j])
             => probe.out[i].time_left >= probe.out[j].time_left

\* C15: the sorted merged list is a rearrangement of the merged list in
\* which a more recent update minute comes first, among entries of one
\* minute and one duty type an entry with a SHORTER remaining time precedes
\* one with a longer remaining time, and entries equal on all three keys
\* keep their merge order.
C15_ShortestFirst ==
  Sorted =>
    /\ Len(probe.out) = Len(probe.merged)
    /\ \E p \in Permutations(1..Len(probe.out)) : StableRearrangement(p)
    /\ \A i, j \in 1..Len(probe.out) :
         i < j =>
           /\ TruncMinute(probe.out[i].updated_at)
                >= TruncMinute(probe.out[j].updated_at)
           /\ SameGroup(probe.out[i], probe.out[j])
                => probe.out[i].time_left <= probe.out[j].time_left

\* a merged list of three entries that the sort rearranged: two entries of
\* one minute (at different seconds) and one duty type with different
\* remaining times, two entries equal on all three keys, and an older minute
C15_Witness ==
  /\ Sorted /\ Len(probe.out) = MaxMerged /\ probe.out # probe.merged
  /\ \E i, j \in 1..MaxMerged :
       /\ i < j /\ SameGroup(probe.out[i], probe.out[j])
       /\ probe.out[i].updated_at # probe.out[j].updated_at
       /\ probe.out[i].time_left < probe.out[j].time_left
  /\ \E i, j \in 1..MaxMerged :
       /\ i < j /\ SameGroup(probe.out[i], probe.out[j])
       /\ probe.out[i].time_left = probe.out[j].time_left
       /\ probe.out[i] # probe.out[j]

\* check_advanced_filters has returned or raised
Checked == probe.fn = "check_advanced_filters" /\ probe.returned

\* C16: for every listing and every condition of which no detail-level field
\* is set, check_advanced_filters returns true and fetches no detail.
C16_NoFieldNoFetch ==
  (/\ Checked
   /\ ~probe.filter_condition.exclude_jobs.given
   /\ ~probe.filter_condition.min_slots_available.given
   /\ ~probe.filter_condition.max_slots_filled.given
   /\ ~probe.filter_condition.beginners_welcome.given
   /\ ~probe.filter_condition.content_keywords.given)
    => probe.out = [result |-> "true", fetches |-> 0]

\* no field is set and the listing is gone: true without a fetch
C16_Witness ==
  /\ Checked /\ probe.filter_condition = NoFields
  /\ probe.response.kind = "gone"
  /\ probe.out.result = "true" /\ probe.out.fetches = 0

\* a token of the slot's job string is, in upper case, the code of id
DecodesTo(slot, id) ==
  \E token \in Range(Split(slot.job)) :
    /\ Upper(token) \in DOMAIN JOB_CODE_TO_ID
    /\ JOB_CODE_TO_ID[Upper(token)] = id

\* a filled slot of the fetched detail decodes to an excluded job id
FilledSlotExcluded ==
  /\ probe.response.detail.slots.given
  /\ \E slot \in Range(probe.response.detail.slots.v) :
       /\ slot.filled
       /\ \E id \in probe.filter_condition.exclude_jobs.v : DecodesTo(slot, id)

\* exclude_jobs is the only detail-level field of the condition
OnlyExcludeJobs ==
  \E e \in SUBSET JobIds \ {{}} :
    probe.filter_condition = [NoFields EXCEPT !.exclude_jobs = Some(e)]

\* C17: when the detail is fetched and a filled slot decodes to a job id of
\* exclude_jobs, check_advanced_filters returns false whatever the other
\* slots and the other detail-level fields are; with exclude_jobs alone and
\* no such filled slot it returns true, whatever the unfilled slots hold.
C17_ExcludedJobRejects ==
  (/\ Checked /\ probe.response.kind = "ok"
   /\ probe.filter_condition.exclude_jobs.given
   /\ probe.filter_condition.exclude_jobs.v # {})
    => /\ FilledSlotExcluded => probe.out.result = "false"
       /\ OnlyExcludeJobs /\ ~FilledSlotExcluded => probe.out.result = "true"

\* rejected for the second code of a filled slot's lower-case job string,
\* next to a slot that holds no excluded job, by a condition that has other
\* fields which the detail satisfies
C17_Witness ==
  /\ Checked /\ probe.response.kind = "ok" /\ probe.out.result = "false"
  /\ probe.filter_condition.exclude_jobs = Some({JOB_CODE_TO_ID[WAR]})
  /\ probe.filter_condition.min_slots_available.given
  /\ probe.filter_condition.content_keywords.given
  /\ probe.response.detail.slots
       = Some(<< [filled |-> FALSE, job |-> Lower(WAR)],
                 [filled |-> TRUE, job |-> PLD \o <<" ">> \o Lower(WAR)] >>)

\* content_keywords is the only detail-level field of the condition
OnlyKeywords ==
  /\ probe.filter_condition.content_keywords.given
  /\ probe.filter_condition.content_keywords.v # <<>>
  /\ probe.filter_condition
       = [NoFields EXCEPT
            !.content_keywords = probe.filter_condition.content_keywords]

\* a whitespace-separated keyword is, in lower case, part of the lower-case
\* description of the fetched detail
SomeKeywordInDescription ==
  \E kw \in Range(Split(probe.filter_condition.content_keywords.v)) :
    Contains(Lower(probe.response.detail.description), Lower(kw))

\* C18 as stated: with keywords as the only field set, a listing whose
\* detail is fetched passes if and only if one of the keywords is part of
\* the description, both in lower case.
C18_AsStated ==
  Checked /\ OnlyKeywords /\ probe.response.kind = "ok"
    => (probe.out.result = "true" <=> SomeKeywordInDescription)

\* C18: with keywords as the only field set, a listing whose detail is
\* fetched passes if and only if one of the keywords is part of the
\* description, both in lower case, PROVIDED the keyword string holds a
\* keyword; when it is made of whitespace alone every such listing passes.
C18_KeywordsOr ==
  Checked /\ OnlyKeywords /\ probe.response.kind = "ok"
    => IF Split(probe.filter_condition.content_keywords.v) = <<>>
       THEN probe.out.result = "true"
       ELSE probe.out.result = "true" <=> SomeKeywordInDescription

\* passed for the second of two keywords, which is in the description in
\* the other case
C18_Witness ==
  /\ Checked /\ OnlyKeywords /\ probe.response.kind = "ok"
  /\ probe.filter_condition.content_keywords.v = <<"d", " ", "A">>
  /\ probe.response.detail.description = <<"a", "a">>
  /\ probe.out.result = "true"

\* a detail-level field of the condition is set
SomeFieldSet ==
  \/ probe.filter_condition.exclude_jobs.given
  \/ probe.filter_condition.min_slots_available.given
  \/ probe.filter_condition.max_slots_filled.given
  \/ probe.filter_condition.beginners_welcome.given
  \/ probe.filter_condition.content_keywords.given

\* C19: when a detail-level field is set and the detail fetch made for the
\* listing reports that the listing no longer exists, check_advanced_filters
\* returns false: it neither raises nor passes the listing.
C19_GoneRejects ==
  (/\ Checked /\ SomeFieldSet
   /\ probe.out.fetches = 1 /\ probe.response.kind = "gone")
    => probe.out.result = "false"

\* a condition with excluded jobs met a listing that is gone
C19_Witness ==
  /\ Checked /\ probe.response.kind = "gone"
  /\ probe.filter_condition.exclude_jobs.given
  /\ probe.out = [result |-> "false", fetches |-> 1]

\* the ids that the search of a step which is not the iteration's last has
\* returned and that were not in the notified set
NewOfStep ==
  IdsOf(SubSeq(all_listings', Len(all_listings) + 1, Len(all_listings')))
    \ notified_listings

\* C20: every notify_found call of a search of the poll loop carries
\* enable_system_notification = FALSE when the registry holds a target at the
\* time of the call and TRUE when it is empty, and the call is made for the
\* new listings of the search in both cases.
C20_SystemNotification ==
  [][(pc = "search")
       => /\ \A i \in 1..Len(events') :
               events'[i].type = "found"
                 => events'[i].sys = (DOMAIN monitor_targets = {})
          /\ ci' = ci + 1 /\ NewOfStep # {}
               => \E i \in 1..Len(events') :
                    /\ events'[i].type = "found"
                    /\ events'[i].ids = NewOfStep]_vars

\* a search has reported new listings while a target is in the registry
C20_Witness ==
  /\ pc = "search" /\ ci > 1 /\ DOMAIN monitor_targets # {}
  /\ \E i \in 1..Len(events) :
       events[i].type = "found" /\ ~events[i].sys /\ events[i].ids # {}

\* the step is a call of clear_notified_listings
ClearsNotified == events' = <<Status("notified cleared")>>

\* C21: clear_notified_listings empties the notified set and leaves the
\* registry with its entries' update times and staleness values, the poll
\* snapshot, the last-shown id set and the running flag as they were.
C21_ClearNotifiedFrame ==
  [][ClearsNotified
       => /\ notified_listings' = {}
          /\ UNCHANGED << monitor_targets, last_listings, last_displayed_ids,
                          running >>]_vars

\* the notified set has just been cleared while the registry, the snapshot
\* and the last-shown set hold entries
C21_Witness ==
  /\ events = <<Status("notified cleared")>> /\ notified_listings = {}
  /\ DOMAIN monitor_targets # {} /\ last_listings # <<>>
  /\ last_displayed_ids # {}

\* C22: no step other than clear_notified_listings removes an id from the
\* notified set: searches, additions and removals of targets (by the menu,
\* not-found, staleness or the detector), the clear of the last-shown set
\* and the stop leave every notified id in the set.
C22_NotifiedOnlyGrows ==
  [][~ClearsNotified => notified_listings \subseteq notified_listings']_vars

\* a notified id has just been removed from the registry as expired and is
\* still in the notified set
C22_Witness ==
  \E i \in 1..Len(events) :
    /\ events[i].type = "expired"
    /\ events[i].id \in notified_listings
    /\ events[i].id \notin DOMAIN monitor_targets

\* the step is a call of add_monitor_target whose detail request succeeded
AddsTarget == pc = "menu" /\ hist'.visit.d.kind = "ok"

\* C23: add_monitor_target with a fetched detail leaves an entry for the id
\* whose staleness is 0 and whose stored update time is the update time of
\* that detail, whatever the registry held for the id before, also when the
\* id had been removed.
C23_AddIsFresh ==
  [][AddsTarget
       => /\ hist'.visit.id \in DOMAIN monitor_targets'
          /\ monitor_targets'[hist'.visit.id]
               = [last_update |-> hist'.visit.d.updated_at,
                  time_without_update |-> 0]]_vars

\* an id that remove_monitor_target had removed in the step before has been
\* added again with a detail updated after the start of the program
C23_Witness ==
  /\ pc = "menu" /\ hist.visit.d.kind = "ok"
  /\ hist.visit.after.kind = "removed"
  /\ hist.visit.d.updated_at > 0
  /\ hist.visit.id \in DOMAIN monitor_targets
  /\ monitor_targets[hist.visit.id]
       = [last_update |-> hist.visit.d.updated_at, time_without_update |-> 0]

\* the step ends the work of an iteration without targets
EndsWithoutTargets == pc = "search" /\ pc' = "sleep"

\* show_listings_table is called in the step, for the ids of all_listings
TableShown ==
  \E i \in 1..Len(events') :
    events'[i].type = "table" /\ events'[i].ids = IdsOf(all_listings')

\* C24 as stated: in an iteration without targets the table is displayed and
\* the last-shown set replaced by the current result-id set exactly when the
\* two sets differ; otherwise nothing is displayed and the set is unchanged.
C24_AsStated ==
  [][EndsWithoutTargets
       => IF IdsOf(all_listings') # last_displayed_ids
          THEN TableShown /\ last_displayed_ids' = IdsOf(all_listings')
          ELSE ~TableShown /\ UNCHANGED last_displayed_ids]_vars

\* C24: in an iteration without targets the table is displayed and the
\* last-shown set replaced by the current result-id set exactly when the
\* current set holds an id that is NOT IN the last-shown set; otherwise,
\* also when ids have only disappeared, nothing is displayed and the set is
\* unchanged.
C24_ShownOnNewIds ==
  [][EndsWithoutTargets
       => IF IdsOf(all_listings') \ last_displayed_ids # {}
          THEN TableShown /\ last_displayed_ids' = IdsOf(all_listings')
          ELSE ~TableShown /\ UNCHANGED last_displayed_ids]_vars

\* an iteration without targets has ended with results that are a proper
\* part of the last-shown set, and without a table
C24_Witness ==
  /\ pc = "sleep" /\ DOMAIN monitor_targets = {}
  /\ all_listings # <<>> /\ IdsOf(all_listings) # last_displayed_ids
  /\ IdsOf(all_listings) \subseteq last_displayed_ids
  /\ \A i \in 1..Len(events) : events[i].type # "table"

\* C25: check_expired_by_order adds no entry to the registry and changes no
\* entry that stays; it only removes entries, and it leaves the notified set
\* and the last-shown set as they were.
C25_DetectorOnlyRemoves ==
  [][DetectorRuns
       => /\ DOMAIN monitor_targets' \subseteq DOMAIN monitor_targets
          /\ \A id \in DOMAIN monitor_targets' :
               monitor_targets'[id] = monitor_targets[id]
          /\ UNCHANGED << notified_listings, last_displayed_ids >>]_vars

\* the detector has just removed a target while another target with a
\* staleness above 0 stays, and the notified and last-shown sets hold ids
C25_Witness ==
  /\ pc = "check"
  /\ \E i \in 1..Len(events) :
       /\ events[i].type = "expired" /\ events[i].reason = "gone from list"
       /\ events[i].id \notin DOMAIN monitor_targets
  /\ \E id \in DOMAIN monitor_targets :
       monitor_targets[id].time_without_update > 0
  /\ notified_listings # {} /\ last_displayed_ids # {}

\* the step is the one of lines 246-250: show_monitor_targets and, when the
\* list is not empty, check_expired_by_order
ShowsTargets == pc = "show" /\ pc' = "check"

\* C26: when the current list has fewer than 2 listings, or when there is
\* no previous snapshot, the detector removes no target and makes no
\* notify_expired call.
C26_DetectorNoOp ==
  [][ShowsTargets /\ (Len(all_listings) < 2 \/ last_listings = <<>>)
       => /\ monitor_targets' = monitor_targets
          /\ \A i \in 1..Len(events') : events'[i].type # "expired"]_vars

\* the detector was called with a single listing: a target of the previous
\* snapshot that is not in the list is still in the registry
C26_Witness ==
  /\ pc = "check" /\ todo = DOMAIN monitor_targets /\ hist.visit = NoVisit
  /\ Len(all_listings) = 1
  /\ \E i \in 1..Len(last_listings) :
       /\ last_listings[i].id \in DOMAIN monitor_targets
       /\ last_listings[i].id \notin IdsOf(all_listings)
  /\ \A i \in 1..Len(events) : events[i].type # "expired"

\* C27: show_monitor_targets changes nothing of the registry: a line is
\* shown for every target, whether its detail request succeeds, reports
\* not-found or fails otherwise; every entry that is in the registry after
\* lines 246-250 is as it was, and every entry that is not was removed by
\* the detector with its notify_expired call.
C27_ShowKeepsRegistry ==
  [][ShowsTargets
       => /\ events'[1].type = "shown"
          /\ events'[1].ok \cup events'[1].notfound \cup events'[1].failed
               = DOMAIN monitor_targets
          /\ DOMAIN monitor_targets' \subseteq DOMAIN monitor_targets
          /\ \A id \in DOMAIN monitor_targets' :
               monitor_targets'[id] = monitor_targets[id]
          /\ \A id \in DOMAIN monitor_targets \ DOMAIN monitor_targets' :
               ExpiredFor(events', id, "gone from list")]_vars

\* the targets have been shown, one with a not-found answer and one with
\* another failure; both are in the registry, one with a staleness above 0
C27_Witness ==
  /\ pc = "check" /\ todo = DOMAIN monitor_targets /\ hist.visit = NoVisit
  /\ events[1].type = "shown"
  /\ events[1].notfound # {} /\ events[1].failed # {}
  /\ events[1].notfound \cup events[1].failed \subseteq DOMAIN monitor_targets
  /\ \E id \in DOMAIN monitor_targets :
       monitor_targets[id].time_without_update > 0

\* a search of the step failed in its page or detail requests (lines 79-81),
\* or the step is a pass of check_monitor_targets whose request failed
FailureHandled ==
  \/ pc = "search" /\ ~hist.failed /\ hist'.failed
  \/ pc = "check" /\ todo' # todo /\ hist'.visit.d.kind # "ok"

\* the step emits a status line other than the closing line of an iteration
\* (line 273) and the line after the loop (line 291), which are emitted
\* whether or not anything failed
ReportsFailure ==
  \E i \in 1..Len(events') :
    /\ events'[i].type = "status"
    /\ events'[i].msg \notin {"checked", "loop ended"}

C29_MalformedKeepsTarget ==
  [][CheckPass /\ hist'.visit.d.kind = "invalid"
       => /\ hist'.visit.id \in DOMAIN monitor_targets'
          /\ monitor_targets'[hist'.visit.id]
               = monitor_targets[hist'.visit.id]]_vars

\* an iteration is in progress: its work or its sleep
InIteration == pc \in {"search", "show", "check", "sleep", "err_sleep"}

\* C30: iterations do not overlap.  The loop is at one place at a time; an
\* iteration begins only at the head of the loop, the head is reached only
\* from a finished sleep or from the start of a run, and a run starts only
\* from the menu, which is reached only when the loop of the previous run
\* has ended.
C30_Sequential ==
  [][/\ (~InIteration /\ InIteration') => (pc = "head" /\ pc' = "search")
     /\ (pc # "head" /\ pc' = "head")
          => pc \in {"sleep", "err_sleep", "menu"}
     /\ (pc # "menu" /\ pc' = "menu") => pc = "ended"
     /\ (pc # "ended" /\ pc' = "ended") => ~running']_vars

\* the first iteration of a later run has begun: the notified set was
\* cleared in the menu after an iteration had shown its results
C30_Witness ==
  /\ pc = "search" /\ running /\ ci = 1 /\ all_listings = <<>>
  /\ notified_listings = {} /\ last_displayed_ids # {}

\* the step is taken by the input listener
CommandStep ==
  /\ listener = "listening"
  /\ events' \in { <<Status("stopping")>>, <<Status("displayed cleared")>>,
                   <<Console>> }

\* C31 as stated: a command of the operator changes nothing but the
\* cancellation flag: not the notified set, the snapshot, the registry or
\* any other set the poll loop maintains.
C31_AsStated ==
  [][CommandStep
       => UNCHANGED << notified_listings, last_listings, monitor_targets,
                       last_displayed_ids, all_listings, todo, ci, pc, now,
                       filter_conditions >>]_vars

\* C31: a command of the operator changes nothing but the cancellation flag
\* AND THE LAST-SHOWN SET, which 'clear' empties: it never changes the
\* notified set, the snapshot, the registry or the list of the iteration in
\* progress; only 'q' and the end of input change the flag, to False.
C31_CommandsFrame ==
  [][CommandStep
       => /\ UNCHANGED << notified_listings, last_listings, monitor_targets,
                          all_listings, todo, ci, pc, now, filter_conditions >>
          /\ last_displayed_ids' # last_displayed_ids
               => /\ events' = <<Status("displayed cleared")>>
                  /\ last_displayed_ids' = {}
          /\ running' # running
               => events' = <<Status("stopping")>> /\ ~running']_vars

\* 'clear' has emptied the last-shown set during the sleep of an iteration
\* without targets that had results, with ids in the notified set
C31_Witness ==
  /\ pc = "sleep" /\ listener = "listening" /\ all_listings # <<>>
  /\ DOMAIN monitor_targets = {} /\ notified_listings # {}
  /\ events = <<Status("displayed cleared")>> /\ last_displayed_ids = {}

\* C32: the params of a request of get_listings hold a query-level key
\* exactly when the condition gives that field a non-empty value, always
\* hold page and per_page, and never hold a detail-level field.
C32_RequestParams ==
  probe.fn = "get_listings" /\ probe.returned
    => /\ \A k \in QueryKeys :
            k \in DOMAIN probe.out
              <=> /\ probe.filter_condition.given
                  /\ probe.filter_condition.v[k].given
                  /\ Len(probe.filter_condition.v[k].v) > 0
       /\ {"page", "per_page"} \subseteq DOMAIN probe.out
       /\ DOMAIN probe.out \cap DetailKeys = {}

\* a request for a condition with a category, an empty world, two jobs and
\* detail-level fields: category and jobs are sent, world is not
C32_Witness ==
  /\ probe.fn = "get_listings" /\ probe.returned
  /\ probe.filter_condition.given
  /\ probe.filter_condition.v.world = Some(<<>>)
  /\ probe.filter_condition.v.exclude_jobs.given
  /\ probe.filter_condition.v.duty = Some(<<0>>)
  /\ "category" \in DOMAIN probe.out /\ "world" \notin DOMAIN probe.out
  /\ {"jobs", "duty"} \subseteq DOMAIN probe.out
  /\ probe.out["jobs"] = <<"1", "9", ",", "2", "1">>
  /\ probe.out["duty"] = <<"0">>
  /\ probe.out["per_page"] = <<"1", "0", "0">> /\ probe.per_page > PerPageLimit

\* C33: a threshold of the slot counts that is set counts as set whatever
\* its value, 0 included: when min_slots_available or max_slots_filled is
\* set and the listing's detail violates it, check_advanced_filters fetches
\* the detail and rejects the listing.
C33_ThresholdEnforced ==
  Checked /\ probe.response.kind = "ok"
    => /\ /\ probe.filter_condition.max_slots_filled.given
          /\ probe.response.detail.slots_filled
               > probe.filter_condition.max_slots_filled.v
          => probe.out = [result |-> "false", fetches |-> 1]
       /\ /\ probe.filter_condition.min_slots_available.given
          /\ probe.response.detail.slots_available
               < probe.filter_condition.min_slots_available.v
          => probe.out = [result |-> "false", fetches |-> 1]

\* the ids of s at the 0-based indices after k
AfterIndex(s, k) == { s[i].id : i \in (k + 2)..Len(s) }

\* C34 as stated: a monitored id that occupies a position after the boundary
\* k of the confirmed-current prefix in the previous snapshot and is absent
\* from the current sequence is not removed by the detector and gets no
\* expired notification from it.
C34_AsStated ==
  [][DetectorRuns /\ last_listings # <<>> =>
       \A x \in DOMAIN monitor_targets :
         /\ x \in AfterIndex(last_listings, ConfirmedPrefixEnd(all_listings))
         /\ x \notin IdsOf(all_listings)
         => /\ x \in DOMAIN monitor_targets'
            /\ ~ExpiredFor(events', x, "gone from list")]_vars

\* C34: a monitored id WHOSE POSITIONS in the previous snapshot ARE ALL after
\* the boundary k of the confirmed-current prefix (k taken, as the detector
\* takes it, from the current sequence) and that is absent from the current
\* sequence is not removed by the detector and gets no expired notification
\* from it.
C34_BeyondPrefixKept ==
  [][DetectorRuns /\ last_listings # <<>> =>
       \A x \in DOMAIN monitor_targets :
         /\ x \in AfterIndex(last_listings, ConfirmedPrefixEnd(all_listings))
         /\ x \notin FirstUpTo(last_listings, ConfirmedPrefixEnd(all_listings))
         /\ x \notin IdsOf(all_listings)
         => /\ x \in DOMAIN monitor_targets'
            /\ monitor_targets'[x] = monitor_targets[x]
            /\ ~ExpiredFor(events', x, "gone from list")]_vars

\* the detector has run on two or more listings and has kept a target that
\* is absent from them and lies after the boundary in the previous snapshot
C34_Witness ==
  /\ pc = "check" /\ Len(all_listings) >= 2 /\ hist.prev # <<>>
  /\ \E x \in DOMAIN monitor_targets :
       /\ x \in AfterIndex(hist.prev, ConfirmedPrefixEnd(all_listings))
       /\ x \notin FirstUpTo(hist.prev, ConfirmedPrefixEnd(all_listings))
       /\ x \notin IdsOf(all_listings)
       /\ ~ExpiredFor(events, x, "gone from list")

\* C35: for each target the detector removes, exactly one expired
\* notification is emitted in that step, also when the previous snapshot
\* holds the id more than once, and the removed target is not among the
\* targets check_monitor_targets goes through in the same iteration.
C35_OneNotificationPerRemoval ==
  [][DetectorRuns =>
       \A x \in DOMAIN monitor_targets \ DOMAIN monitor_targets' :
         /\ Cardinality({ i \in 1..Len(events') :
                            /\ events'[i].type = "expired"
                            /\ events'[i].id = x }) = 1
         /\ x \notin todo']_vars

\* C36: while a target stays in the registry during a monitoring run (the
\* iterations of the loop, its sleeps, the commands of the operator), its
\* stored update time never decreases, whatever update time the refetched
\* detail carries.
C36_UpdateTimeMonotone ==
  [][(pc # "menu") =>
       \A x \in DOMAIN monitor_targets \cap DOMAIN monitor_targets' :
         monitor_targets'[x].last_update >= monitor_targets[x].last_update]_vars

\* a pass has just refetched a detail that is older than the stored update
\* time, and the target has stayed with the stored time
C36_Witness ==
  /\ pc = "check" /\ hist.visit.d.kind = "ok"
  /\ hist.visit.id \in DOMAIN monitor_targets
  /\ hist.visit.d.updated_at < monitor_targets[hist.visit.id].last_update
  /\ monitor_targets[hist.visit.id].time_without_update > 0

OneOffSearch ==
  /\ pc = "menu" /\ pc' = "menu" /\ hist'.visit = NoVisit
  /\ \A i \in 1..Len(events') : events'[i].type # "status"

\* C38: search_listings with notify = False makes no notify_found call and
\* leaves the notified set unchanged; and every id in the list of a poll
\* iteration after one of its searches that was not in the notified set
\* before that search is handed to notify_found by it, so an id that only
\* one-off searches have returned is notified by the next poll search that
\* returns it.
C38_OneOffKeepsNotified ==
  [][/\ OneOffSearch
        => /\ events' = <<>>
           /\ notified_listings' = notified_listings
     /\ pc = "search"
        => IdsOf(all_listings') \ notified_listings
             \subseteq FoundIds(events')]_vars

\* a one-off search has just returned a listing that was never notified:
\* it is not in the notified set
C38_Witness ==
  /\ pc = "menu" /\ hist.would # {} /\ events = <<>>
  /\ hist.would \cap (notified_listings \cup hist.found) = {}

\* C39: add_monitor_target whose detail request fails (not found, a response
\* that cannot be read, a transport error) leaves the registry as it was: no
\* entry appears for the id, and an entry the id already has keeps its
\* update time and staleness; the failure is reported with a status line.
C39_FailedAddKeepsRegistry ==
  [][(pc = "menu")
        /\ hist'.visit.d.kind \in {"notfound", "invalid", "transport"}
       => /\ monitor_targets' = monitor_targets
          /\ events' = <<StatusFor("add failed", hist'.visit.id)>>]_vars

\* an add has just failed for an id that is in the registry with a staleness
\* above 0; the registry is as it was, with that entry and without the other id
C39_Witness ==
  /\ pc = "menu" /\ hist.visit.d.kind \in {"notfound", "transport"}
  /\ hist.visit.id \in DOMAIN monitor_targets
  /\ monitor_targets[hist.visit.id].time_without_update > 0
  /\ events = <<StatusFor("add failed", hist.visit.id)>>
  /\ DOMAIN monitor_targets # Ids

====
